---- MODULE Spec2Model ----
(***************************************************************************)
(* Model of src/app.py: the pronunciation-assessment middleware.           *)
(*                                                                         *)
(* POST /assess is handled by assess(): credential check, body validation, *)
(* download_audio() (GET + ffmpeg transcoding through temporary files),    *)
(* assess_pronunciation() (POST to the remote service) and                 *)
(* format_response().                                                      *)
(*                                                                         *)
(* Line 80 of src/app.py ends in a doubled comma, which Python rejects at  *)
(* import; the model reads the headers literal with a single comma.        *)
(*                                                                         *)
(* Encoding of Python values                                               *)
(*   dict            a function whose DOMAIN is the set of keys present    *)
(*   None / a value  a set with no element / with exactly that element     *)
(*   list            a sequence                                            *)
(*   raw score       an integer number of hundredths (8996 is 89.96)       *)
(*   round(x, 1)     an integer number of tenths     (900 is 90.0)         *)
(*   f-string        a record of the template and the values it embeds     *)
(*   a call          [raised |-> FALSE, value |-> v] when it returns v,    *)
(*                   [raised |-> TRUE, exc |-> e] when it raises e         *)
(***************************************************************************)
EXTENDS Integers, Sequences, FiniteSets, TLC

VARIABLES
    azure_key,     \* os.environ['AZURE_SPEECH_KEY'] ('' when unset)
    phase,         \* "idle": waiting for a request; "responded": assess() returned
    stale,         \* temporary files left on disk by earlier requests
    body,          \* request.get_json() of the request being handled
    fetched,       \* what the outbound GET and the transcoding steps did
    called,        \* what the outbound assessment POST did
    getCalls,      \* requests.get calls made for this request
    postCalls,     \* requests.post calls made for this request
    created,       \* temporary files created for this request
    tmpfiles,      \* of those, the ones still on disk
    audio_data,    \* what download_audio returned
    azure_result,  \* what assess_pronunciation returned
    formatted,     \* the outcome of the call format_response(azure_result)
    response       \* [status, payload] sent to the caller

vars == <<azure_key, phase, stale, body, fetched, called, getCalls, postCalls,
          created, tmpfiles, audio_data, azure_result, formatted, response>>

---------------------------------------------------------------------------
(* Python values *)

None == {}
Some(v) == {v}
Val(o) == CHOOSE v \in o : TRUE
EmptyDict == <<>>

\* d.get(k): None when the key is absent
Get(d, k) == IF k \in DOMAIN d THEN Some(d[k]) ELSE None
\* d.get(k, default)
GetD(d, k, default) == IF k \in DOMAIN d THEN d[k] ELSE default
\* truth value of an optional string: None and '' are false
Truthy(o) == o # None /\ Val(o) # ""

Returned(v) == [raised |-> FALSE, value |-> v]
Raised(e) == [raised |-> TRUE, exc |-> e]

\* the dicts that carry either nothing or key k with one of vals
Field(k, vals) == {EmptyDict} \cup {k :> v : v \in vals}

\* the lists over S of length at most n
RECURSIVE SeqsUpTo(_, _)
SeqsUpTo(S, n) ==
    IF n = 0 THEN {<<>>}
    ELSE LET shorter == SeqsUpTo(S, n - 1)
         IN  shorter \cup {Append(s, x) : s \in {t \in shorter : Len(t) = n - 1}, x \in S}

---------------------------------------------------------------------------
(* format_response, src/app.py:94-144 *)

Tenths == 10            \* round(x, 1) keeps one decimal
ExcellentMin == 90      \* if pron_score >= 90
GoodMin == 75           \* elif pron_score >= 75
FairMin == 60           \* elif pron_score >= 60
WordMin == 70           \* if word_score < 70

\* round(x, 1) of a number given in hundredths, in tenths: Python rounds the
\* exact value of the float, half to even. A float is exactly halfway only at
\* .25 and .75; the raw scores of the model end in no other 5.
Round1(x) ==
    LET q == x \div 10
        r == x % 10
    IN  IF r < 5 THEN q
        ELSE IF r > 5 THEN q + 1
        ELSE IF q % 2 = 0 THEN q ELSE q + 1

\* a ladder whose comparisons are strict: each boundary falls to the lower tier
FeedbackTemplate_strict(pron_score) ==
    IF pron_score > ExcellentMin * Tenths THEN "excellent"
    ELSE IF pron_score > GoodMin * Tenths THEN "good"
    ELSE IF pron_score > FairMin * Tenths THEN "fair"
    ELSE "keep_trying"

\* the if/elif ladder of lines 112-119: the template chosen for pron_score
FeedbackTemplate(pron_score) ==
    IF pron_score >= ExcellentMin * Tenths THEN "excellent"
    ELSE IF pron_score >= GoodMin * Tenths THEN "good"
    ELSE IF pron_score >= FairMin * Tenths THEN "fair"
    ELSE "keep_trying"

\* line 128
IsProblemWord(word_score, error_type) ==
    word_score < WordMin * Tenths \/ error_type # "None"

WordScore(word) == Round1(GetD(word, "AccuracyScore", 0))
WordError(word) == GetD(word, "ErrorType", "None")

\* line 127: the diagnostic appended to words_feedback
WordFeedback(word) ==
    [word |-> Get(word, "Word"), score |-> WordScore(word), error |-> WordError(word)]

\* lines 124-129: problem_words, the word.get('Word') of each flagged word
ProblemWords(words) ==
    LET flagged(word) == IsProblemWord(WordScore(word), WordError(word))
        picked == SelectSeq(words, flagged)
    IN  [i \in 1..Len(picked) |-> Get(picked[i], "Word")]

\* ', '.join(items): raises TypeError when an item is not a str
Join(items) ==
    IF \E i \in 1..Len(items) : items[i] = None
    THEN Raised("TypeError")
    ELSE Returned([i \in 1..Len(items) |-> Val(items[i])])

SorryFeedback == [template |-> "sorry"]

format_response(result) ==
    IF ~GetD(result, "success", FALSE)
    THEN Returned([success |-> FALSE,
                   error |-> GetD(result, "error", "Unknown error"),
                   details |-> GetD(result, "details", ""),
                   feedback |-> SorryFeedback])
    ELSE
    LET data == GetD(result, "data", EmptyDict)
        nbest == IF Get(data, "NBest") # None /\ Len(data["NBest"]) > 0
                 THEN data["NBest"][1] ELSE EmptyDict
        pron_score == Round1(GetD(nbest, "PronScore", 0))
        accuracy == Round1(GetD(nbest, "AccuracyScore", 0))
        fluency == Round1(GetD(nbest, "FluencyScore", 0))
        completeness == Round1(GetD(nbest, "CompletenessScore", 0))
        prosody == IF "ProsodyScore" \in DOMAIN nbest
                   THEN Some(Round1(nbest["ProsodyScore"])) ELSE None
        words == GetD(nbest, "Words", <<>>)
        words_feedback == [i \in 1..Len(words) |-> WordFeedback(words[i])]
        problem_words == ProblemWords(words)
        joined == Join(problem_words)
        practice == IF problem_words # <<>> THEN <<joined.value>> ELSE <<>>
    IN  IF problem_words # <<>> /\ joined.raised
        THEN Raised(joined.exc)
        ELSE Returned([success |-> TRUE,
                       pronunciation_score |-> pron_score,
                       accuracy_score |-> accuracy,
                       fluency_score |-> fluency,
                       completeness_score |-> completeness,
                       prosody_score |-> prosody,
                       feedback |-> [template |-> FeedbackTemplate(pron_score),
                                     score |-> pron_score,
                                     practice |-> practice],
                       words |-> words_feedback,
                       recognized_text |-> GetD(nbest, "Display", "")])

---------------------------------------------------------------------------
(* download_audio, src/app.py:23-59 *)

\* What the world does to one download_audio call:
\*   get     requests.get + raise_for_status: "ok", or the exception raised
\*   write   writing the bytes to the NamedTemporaryFile
\*   ffmpeg  subprocess.run(check=True): "ok", "nonzero" (CalledProcessError)
\*           or "not_runnable" (FileNotFoundError, PermissionError)
\*   wav     whether ffmpeg has created the output file when it stops
\*   read    open(wav_path).read()
\* "-" marks a step that is not reached.
DownloadEnvs ==
    {[get |-> g, write |-> "-", ffmpeg |-> "-", wav |-> FALSE, read |-> "-"] :
        g \in {"http_error", "connection_error", "timeout"}}
    \cup {[get |-> "ok", write |-> "error", ffmpeg |-> "-", wav |-> FALSE, read |-> "-"]}
    \cup {[get |-> "ok", write |-> "ok", ffmpeg |-> "ok", wav |-> TRUE, read |-> r] :
        r \in {"ok", "error"}}
    \cup {[get |-> "ok", write |-> "ok", ffmpeg |-> "nonzero", wav |-> w, read |-> "-"] :
        w \in BOOLEAN}
    \cup {[get |-> "ok", write |-> "ok", ffmpeg |-> "not_runnable", wav |-> FALSE, read |-> "-"]}

\* lines 54-56: the exceptions of the transcoding step that the inner handler
\* catches; every other one reaches the bare except of line 58
CaughtByFallback(ffmpeg) == ffmpeg = "nonzero"

\* lines 50-51 and 55: the files each exit path unlinks
Unlinked(env) ==
    IF env.ffmpeg = "ok" /\ env.read = "ok" THEN {"mp3", "wav"}
    ELSE IF CaughtByFallback(env.ffmpeg) THEN {"mp3"}
    ELSE {}

\* [ret: the bytes returned or None, created: temporary files created,
\*  left: temporary files still on disk at return]
download_audio(audio_url, env) ==
    IF env.get # "ok"
    THEN [ret |-> None, created |-> {}, left |-> {}]
    ELSE
    LET made == {"mp3"} \cup (IF env.wav THEN {"wav"} ELSE {})
        left == made \ Unlinked(env)
    IN  IF env.write # "ok"
        THEN [ret |-> None, created |-> made, left |-> left]
        ELSE IF env.ffmpeg = "ok"
        THEN IF env.read = "ok"
             THEN [ret |-> Some("wav_data"), created |-> made, left |-> left]
             ELSE [ret |-> None, created |-> made, left |-> left]
        ELSE IF CaughtByFallback(env.ffmpeg)
        THEN [ret |-> Some("audio_data"), created |-> made, left |-> left]
        ELSE [ret |-> None, created |-> made, left |-> left]

---------------------------------------------------------------------------
(* assess_pronunciation, src/app.py:61-92 *)

\* f"Azure error {response.status_code}"
AzureError(code) ==
    CASE code = 401 -> "Azure error 401"
      [] code = 429 -> "Azure error 429"
      [] OTHER -> "Azure error 500"

\* What the remote service does to one POST: a response with a status code and
\* a body that parses as JSON (json) or does not (json = None), or a transport
\* exception.
assess_pronunciation(audio, reference_text, language, env) ==
    IF env.kind = "exception"
    THEN [success |-> FALSE, error |-> env.msg]
    ELSE IF env.code = 200
    THEN IF env.json # None
         THEN [success |-> TRUE, data |-> Val(env.json)]
         ELSE [success |-> FALSE, error |-> "Expecting value"]
    ELSE [success |-> FALSE, error |-> AzureError(env.code), details |-> env.text]

---------------------------------------------------------------------------
(* assess, the POST /assess handler, src/app.py:157-182 *)

ErrorPayload(msg) == [success |-> FALSE, error |-> msg]

\* what Flask answers when the view function raises
ServerErrorPage == [page |-> "Internal Server Error"]

\* a lookup that forgets the alias: data.get('reference_text', '')
ReferenceText_noAlias(data) == GetD(data, "reference_text", "")

\* line 169: data.get('reference_text', data.get('text', ''))
ReferenceText(data) == GetD(data, "reference_text", GetD(data, "text", ""))

\* a credential test that only catches an unset variable: `if azure_key is None`
\* never holds, get_azure_key defaults to ''
KeyMissing_isNone(key) == FALSE

\* line 161: if not azure_key
KeyMissing(key) == key = ""

\* a download test that misses the None of a failed download
DownloadFailed_never(ret) == FALSE

\* line 178: if audio_data is None
DownloadFailed(ret) == ret = None

NotReached ==
    [getCalls |-> 0, postCalls |-> 0, fetched |-> None, called |-> None,
     created |-> {}, tmpfiles |-> {}, audio_data |-> None,
     azure_result |-> None, formatted |-> None]

\* The whole handler for one request: key is the configured credential, json
\* is request.get_json(), denv and renv are what the download and the remote
\* service do if they are reached.
assess(key, json, denv, renv) ==
    IF KeyMissing(key)
    THEN NotReached @@ [status |-> 500, payload |-> ErrorPayload("Azure key not configured")]
    ELSE IF json = None \/ DOMAIN Val(json) = {}
    THEN NotReached @@ [status |-> 400, payload |-> ErrorPayload("No JSON data")]
    ELSE
    LET data == Val(json)
        audio_url == Get(data, "audio_url")
        reference_text == ReferenceText(data)
        language == GetD(data, "language", "en-US")
    IN  IF ~Truthy(audio_url)
        THEN NotReached @@ [status |-> 400, payload |-> ErrorPayload("audio_url required")]
        ELSE IF reference_text = ""
        THEN NotReached @@ [status |-> 400, payload |-> ErrorPayload("reference_text required")]
        ELSE
        LET dl == download_audio(Val(audio_url), denv)
            got == [getCalls |-> 1, fetched |-> Some(denv), created |-> dl.created,
                    tmpfiles |-> dl.left, audio_data |-> dl.ret]
        IN  IF DownloadFailed(dl.ret)
            THEN got @@ NotReached
                     @@ [status |-> 400, payload |-> ErrorPayload("Failed to download audio")]
            ELSE
            LET result == assess_pronunciation(dl.ret, reference_text, language, renv)
                out == format_response(result)
                sent == [audio |-> dl.ret, reference_text |-> reference_text,
                         language |-> language, key |-> key, outcome |-> renv]
                done == [postCalls |-> 1, called |-> Some(sent),
                         azure_result |-> Some(result), formatted |-> Some(out)]
            IN  IF out.raised
                THEN done @@ got @@ [status |-> 500, payload |-> ServerErrorPage]
                ELSE done @@ got @@ [status |-> 200, payload |-> out.value]

---------------------------------------------------------------------------
(* The inputs of the model *)

MaxStale == 2           \* temporary files that may pile up on disk
MaxWords == 2           \* longest Words list of a raw result

Keys == {"", "secret"}

\* request.get_json(): None, or a JSON object with any of the four keys
Bodies ==
    {a @@ r @@ t @@ l :
        a \in Field("audio_url", {"", "https://x/a.ogg"}),
        r \in Field("reference_text", {"", "hello world"}),
        t \in Field("text", {"", "hola"}),
        l \in Field("language", {"es-ES"})}

BodyOpts == {None} \cup {Some(b) : b \in Bodies}

\* raw scores, in hundredths, around the thresholds of the ladder
PronScores == {5990, 5996, 6000, 7490, 7496, 7500, 8990, 8994, 8996, 9000, 9200}

WordDicts ==
    {w @@ a @@ e :
        w \in Field("Word", {"a", "b"}),
        a \in Field("AccuracyScore", {6990, 6996, 7000}),
        e \in Field("ErrorType", {"None", "Mispronunciation"})}

\* first candidates whose scores and texts vary
ScoreNBests ==
    {p @@ a @@ f @@ c @@ y @@ d @@ w :
        p \in Field("PronScore", PronScores),
        a \in Field("AccuracyScore", {8796}),
        f \in Field("FluencyScore", {8796}),
        c \in Field("CompletenessScore", {10000}),
        y \in Field("ProsodyScore", {0, 8796}),
        d \in Field("Display", {"hello world"}),
        w \in Field("Words", {<<>>})}

\* first candidates whose words vary
WordNBests ==
    {p @@ ("Words" :> ws) :
        p \in Field("PronScore", {5990, 7496, 9000}),
        ws \in SeqsUpTo(WordDicts, MaxWords)}

\* response.json() of the remote service
FmtData ==
    {EmptyDict, "NBest" :> <<>>}
    \cup {"NBest" :> <<n>> : n \in ScoreNBests \cup WordNBests}

\* what assess_pronunciation may return
FmtInputs ==
    {[success |-> TRUE, data |-> d] : d \in FmtData}
    \cup {[success |-> FALSE, error |-> AzureError(401), details |-> "denied"],
          [success |-> FALSE, error |-> "Read timed out"]}

\* the documents the remote service answers with in the handler's runs
SampleData ==
    {EmptyDict,
     "NBest" :> <<>>,
     "NBest" :> <<[PronScore |-> 9200, AccuracyScore |-> 8796, Display |-> "hello world",
                   Words |-> <<[Word |-> "a", AccuracyScore |-> 7000, ErrorType |-> "None"]>>]>>,
     "NBest" :> <<[PronScore |-> 7496,
                   Words |-> <<[Word |-> "a", AccuracyScore |-> 6990, ErrorType |-> "None"],
                               [Word |-> "b", AccuracyScore |-> 7000,
                                ErrorType |-> "Mispronunciation"]>>]>>,
     "NBest" :> <<[PronScore |-> 5990, Words |-> <<[AccuracyScore |-> 6990]>>]>>}

RemoteEnvs ==
    {[kind |-> "exception", msg |-> "Read timed out"]}
    \cup {[kind |-> "response", code |-> c, text |-> "denied", json |-> None] :
            c \in {401, 500}}
    \cup {[kind |-> "response", code |-> 200, text |-> "", json |-> j] :
            j \in {None} \cup {Some(d) : d \in SampleData}}

---------------------------------------------------------------------------
(* The service handling POST /assess requests one after the other *)

Init ==
    /\ azure_key \in Keys
    /\ phase = "idle"
    /\ stale = 0
    /\ body = None
    /\ fetched = None
    /\ called = None
    /\ getCalls = 0
    /\ postCalls = 0
    /\ created = {}
    /\ tmpfiles = {}
    /\ audio_data = None
    /\ azure_result = None
    /\ formatted = None
    /\ response = None

\* POST /assess: the handler runs to its return
Assess ==
    /\ phase = "idle"
    /\ \E json \in BodyOpts, denv \in DownloadEnvs, renv \in RemoteEnvs :
        LET out == assess(azure_key, json, denv, renv)
        IN  /\ phase' = "responded"
            /\ body' = json
            /\ fetched' = out.fetched
            /\ called' = out.called
            /\ getCalls' = out.getCalls
            /\ postCalls' = out.postCalls
            /\ created' = out.created
            /\ tmpfiles' = out.tmpfiles
            /\ audio_data' = out.audio_data
            /\ azure_result' = out.azure_result
            /\ formatted' = out.formatted
            /\ response' = Some([status |-> out.status, payload |-> out.payload])
    /\ UNCHANGED <<azure_key, stale>>

\* The response is sent: every value of the request is dropped, the temporary
\* files it left stay on disk.
NextRequest ==
    /\ phase = "responded"
    /\ stale + Cardinality(tmpfiles) <= MaxStale
    /\ phase' = "idle"
    /\ stale' = stale + Cardinality(tmpfiles)
    /\ body' = None
    /\ fetched' = None
    /\ called' = None
    /\ getCalls' = 0
    /\ postCalls' = 0
    /\ created' = {}
    /\ tmpfiles' = {}
    /\ audio_data' = None
    /\ azure_result' = None
    /\ formatted' = None
    /\ response' = None
    /\ UNCHANGED azure_key

Next == Assess \/ NextRequest

Spec == Init /\ [][Next]_vars

---------------------------------------------------------------------------
(* format_response applied to each result assess_pronunciation may return *)

InitFmt ==
    /\ azure_key \in Keys \ {""}
    /\ phase = "formatting"
    /\ stale = 0
    /\ body = None
    /\ fetched = None
    /\ called = None
    /\ getCalls = 0
    /\ postCalls = 0
    /\ created = {}
    /\ tmpfiles = {}
    /\ audio_data = None
    /\ azure_result \in {Some(r) : r \in FmtInputs}
    /\ formatted = None
    /\ response = None

Format ==
    /\ phase = "formatting"
    /\ phase' = "formatted"
    /\ formatted' = Some(format_response(Val(azure_result)))
    /\ UNCHANGED <<azure_key, stale, body, fetched, called, getCalls, postCalls,
                   created, tmpfiles, audio_data, azure_result, response>>

NextFmt == Format

SpecFmt == InitFmt /\ [][NextFmt]_vars

---------------------------------------------------------------------------
(* The claims *)

Responded == phase = "responded"
Status == Val(response).status
Payload == Val(response).payload
NoOutboundCall == getCalls = 0 /\ postCalls = 0 /\ fetched = None /\ called = None

NonEmpty(d, k) == k \in DOMAIN d /\ d[k] # ""

\* C1: when the validations pass and the audio download fails (the GET ends in
\* a non-2xx status, a network error or a timeout), the response is 400 with
\* success false and the download-failure error, and the assessment POST is
\* not made.
C1_DownloadFailure ==
    (Responded /\ fetched # None /\ Val(fetched).get # "ok") =>
        /\ Status = 400
        /\ GetD(Payload, "success", TRUE) = FALSE
        /\ GetD(Payload, "error", "") = "Failed to download audio"
        /\ postCalls = 0
        /\ called = None
        /\ azure_result = None

C1_Witness ==
    /\ Responded
    /\ fetched # None
    /\ Val(fetched).get = "http_error"
    /\ getCalls = 1
    /\ Status = 400

\* C2: with the credential unset or empty the response is 500 with success
\* false whatever the body is, and neither the download nor the assessment
\* call is made.
C2_MissingCredential ==
    (Responded /\ azure_key = "") =>
        /\ Status = 500
        /\ GetD(Payload, "success", TRUE) = FALSE
        /\ NoOutboundCall

\* a keyless request whose body would pass every validation
C2_Witness ==
    /\ Responded
    /\ azure_key = ""
    /\ body # None
    /\ NonEmpty(Val(body), "audio_url")
    /\ NonEmpty(Val(body), "reference_text")
    /\ Status = 500

\* C3 as stated: with the credential configured and a JSON body, an absent or
\* empty audio_url gives 400 naming audio_url, an absent or empty reference
\* text (reference_text or its alias text) gives 400 naming reference_text,
\* both without any outbound call; a non-empty audio_url with a non-empty
\* reference text under either key proceeds to the download.
C3_Claim ==
    (Responded /\ azure_key # "" /\ body # None) =>
        LET b == Val(body)
            url == NonEmpty(b, "audio_url")
            ref == NonEmpty(b, "reference_text") \/ NonEmpty(b, "text")
        IN  /\ ~url => /\ Status = 400
                       /\ GetD(Payload, "error", "") = "audio_url required"
                       /\ NoOutboundCall
            /\ ~ref => /\ Status = 400
                       /\ GetD(Payload, "error", "") = "reference_text required"
                       /\ NoOutboundCall
            /\ (url /\ ref) => getCalls = 1

\* C3 amended: with the credential configured and a non-empty JSON object as
\* body, an absent or empty audio_url gives 400 naming audio_url; otherwise an
\* absent or empty reference text, which is the value of reference_text when
\* that key is present and the value of text only when it is not, gives 400
\* naming reference_text; both without any outbound call. A non-empty
\* audio_url with a non-empty such reference text proceeds to the download.
C3_Validation ==
    (Responded /\ azure_key # "" /\ body # None /\ DOMAIN Val(body) # {}) =>
        LET b == Val(body)
            url == NonEmpty(b, "audio_url")
            ref == IF "reference_text" \in DOMAIN b THEN b["reference_text"] # ""
                   ELSE NonEmpty(b, "text")
        IN  /\ ~url => /\ Status = 400
                       /\ GetD(Payload, "error", "") = "audio_url required"
                       /\ NoOutboundCall
            /\ (url /\ ~ref) => /\ Status = 400
                                /\ GetD(Payload, "error", "") = "reference_text required"
                                /\ NoOutboundCall
            /\ (url /\ ref) => getCalls = 1 /\ fetched # None

\* the reference text comes from the alias and the request reaches the download
C3_Witness ==
    /\ Responded
    /\ azure_key # ""
    /\ body # None
    /\ NonEmpty(Val(body), "audio_url")
    /\ "reference_text" \notin DOMAIN Val(body)
    /\ NonEmpty(Val(body), "text")
    /\ getCalls = 1

\* C4: every error outcome of POST /assess carries success false, an error
\* field and a feedback string.
C4_Claim ==
    (Responded /\ GetD(Payload, "success", TRUE) = FALSE) =>
        {"error", "feedback"} \subseteq DOMAIN Payload

\* C5: when the download succeeds the assessment client is invoked exactly
\* once and the response is, with status 200, what format_response makes of
\* the client's result: success false for a remote non-200 or a transport
\* exception (a malformed body counts as one), success true for a remote 200.
C5_Claim ==
    (Responded /\ audio_data # None) =>
        /\ postCalls = 1
        /\ called # None
        /\ formatted # None
        /\ Status = 200
        /\ ~Val(formatted).raised
        /\ Payload = Val(formatted).value
        /\ LET o == Val(called).outcome
           IN  Payload.success = (o.kind = "response" /\ o.code = 200 /\ o.json # None)

\* C6: when the download succeeds and the transcoder fails (ffmpeg exits
\* non-zero or cannot be run), download_audio returns the downloaded bytes
\* and the request goes on to the assessment call instead of the 400
\* download-failure response.
C6_Claim ==
    (/\ Responded
     /\ fetched # None
     /\ Val(fetched).get = "ok"
     /\ Val(fetched).write = "ok"
     /\ Val(fetched).ffmpeg \in {"nonzero", "not_runnable"}) =>
        /\ audio_data = Some("audio_data")
        /\ postCalls = 1
        /\ Status # 400

\* C10: once a temporary file has been created, every temporary file created
\* for the request is deleted when download_audio returns.
C10_Claim ==
    (Responded /\ created # {}) => tmpfiles = {}

---------------------------------------------------------------------------
(* The claims about format_response *)

Formatted == phase = "formatted"
RawOk == Val(azure_result).success
\* the first candidate of the raw result, read off the remote document
RawNBest ==
    LET r == Val(azure_result)
    IN  IF "data" \in DOMAIN r /\ "NBest" \in DOMAIN r.data /\ r.data["NBest"] # <<>>
        THEN Head(r.data["NBest"]) ELSE EmptyDict
RawWords == IF "Words" \in DOMAIN RawNBest THEN RawNBest["Words"] ELSE <<>>
Out == Val(formatted)

C8_Claim ==
    (Formatted /\ RawOk) =>
        /\ ~Out.raised
        /\ Len(Out.value.words) = Len(RawWords)
        /\ \A i \in 1..Len(RawWords) : Out.value.words[i].word = Get(RawWords[i], "Word")
        /\ LET problem(d) == d.score < 700 \/ d.error # "None"
               listed == SelectSeq(Out.value.words, problem)
           IN  Out.value.feedback.practice =
                   IF listed = <<>> THEN <<>>
                   ELSE <<[i \in 1..Len(listed) |-> Val(listed[i].word)]>>

\* C9: for a successful raw result with any of the remote fields absent,
\* format_response returns a success result without raising: an absent
\* sub-score is 0, an absent ProsodyScore is null, an absent Display is "",
\* an absent ErrorType is "None", and the feedback is there.
C9_Claim ==
    (Formatted /\ RawOk) =>
        /\ ~Out.raised
        /\ Out.value.success
        /\ "feedback" \in DOMAIN Out.value
        /\ "PronScore" \notin DOMAIN RawNBest => Out.value.pronunciation_score = 0
        /\ "AccuracyScore" \notin DOMAIN RawNBest => Out.value.accuracy_score = 0
        /\ "FluencyScore" \notin DOMAIN RawNBest => Out.value.fluency_score = 0
        /\ "CompletenessScore" \notin DOMAIN RawNBest => Out.value.completeness_score = 0
        /\ "ProsodyScore" \notin DOMAIN RawNBest => Out.value.prosody_score = None
        /\ "Display" \notin DOMAIN RawNBest => Out.value.recognized_text = ""
        /\ \A i \in 1..Len(RawWords) :
              /\ "ErrorType" \notin DOMAIN RawWords[i] => Out.value.words[i].error = "None"
              /\ "AccuracyScore" \notin DOMAIN RawWords[i] => Out.value.words[i].score = 0

====
